---- MODULE Spec2Model ----
(***************************************************************************)
(* VolumeChart (apps/web/src/components/Charts/VolumeChart/index.tsx):     *)
(* the histogram chart adapter VolumeChartModel, the header computation    *)
(* VolumeChartHeader and the composing component VolumeChart.              *)
(*                                                                         *)
(* Objects that the code compares by identity (arrays, theme objects, the  *)
(* memoized parameter bundle) are records with a `ref` field; an optional  *)
(* value (`x?: T`) is the empty tuple when undefined and <<x>> otherwise.  *)
(***************************************************************************)
EXTENDS Integers, Sequences, FiniteSets, TLC

VARIABLES
  \* ---- VolumeChartModel (one instance) and the engine calls it makes
  model,         \* the adapter's fields and the state of the series/overlay it owns
  engineCalls,   \* the engine calls made by the most recent operation, in order
  op,            \* the most recent adapter operation: none | constructor | updateOptions
  lastParams,    \* the parameter bundle of the most recent adapter operation
  dataBefore,    \* history: this.data when the most recent operation started
  repeated,      \* history: the most recent operation got the bundle of the one before
  \* ---- VolumeChart (props, ambient context, hook state)
  volumes, feeTier, timePeriod, color,
  locale, theme, format,
  crosshairData, \* useState<HistogramData>()
  dataMemo,      \* useMemo(..., [volumes])
  paramsMemo,    \* useMemo(..., [data, locale, theme, color, format, noFeesData])
  event,         \* what caused the most recent render
  \* ---- VolumeChartHeader
  display,       \* useMemo(..., [crosshairData, feeTier, formatFiatPrice, headerDateFormatter, timePeriod])
  earlier        \* history: one earlier computation of display, kept for comparison

vars == <<model, engineCalls, op, lastParams, dataBefore, repeated,
          volumes, feeTier, timePeriod, color, locale, theme, format,
          crosshairData, dataMemo, paramsMemo, event, display, earlier>>

modelVars == <<model, engineCalls, op, lastParams, dataBefore, repeated>>
chartVars == <<volumes, feeTier, timePeriod, color, locale, theme, format,
               crosshairData, dataMemo, paramsMemo, event>>
headerVars == <<display, earlier>>

(***************************************************************************)
(* Optional values.                                                        *)
(***************************************************************************)
Absent == <<>>
Some(x) == <<x>>
IsAbsent(o) == Len(o) = 0
\* o ?? d
OrElse(o, d) == IF IsAbsent(o) THEN d ELSE o[1]

(***************************************************************************)
(* Bounds of the model.                                                    *)
(***************************************************************************)
\* distinct object identities of each kind (arrays, theme objects, bundles)
NumRefs == 3
\* longest volumes sequence given to the component
MaxLen == 3

Refs == 1..NumRefs

(***************************************************************************)
(* Input universes.                                                        *)
(***************************************************************************)
Values == {1000, 2000}
Timestamps == {1, 2}
PricePoints == [value : Values, timestamp : Timestamps]
ChartData == [value : Values, time : Timestamps]

Locales == {"en-US", "fr-FR"}
TimePeriods == {"DAY", "WEEK"}
FeeTiers == {Absent, Some(0), Some(30)}
ColorProps == {Absent, Some("pink")}
Formats == {"fmtA", "fmtB"}

\* Theme objects: refs 1 and 3 are distinct objects with the same colors.
ThemeObj(r) ==
  IF r % 2 = 1
    THEN [ref |-> r, surface3 |-> "surfaceLight", accent1 |-> "accentLight"]
    ELSE [ref |-> r, surface3 |-> "surfaceDark", accent1 |-> "accentDark"]
Themes == {ThemeObj(r) : r \in Refs}

\* Histogram data arrays: refs 1 and 3 are distinct arrays with equal contents.
SampleA == <<[value |-> 1000, time |-> 1], [value |-> 2000, time |-> 2]>>
SampleB == <<[value |-> 2000, time |-> 1]>>
DataObj(r) == [ref |-> r, items |-> IF r % 2 = 1 THEN SampleA ELSE SampleB]
DataObjs == {DataObj(r) : r \in Refs}
NoData == [ref |-> 0, items |-> <<>>]

HeaderHeights == {75, 90}

\* VolumeChartModelParams
ParamBundles ==
  [data : DataObjs, locale : Locales, theme : Themes, color : {"pink", "accentLight"},
   format : {"fmtA"}, onCrosshairMove : {"setCrosshairData"}, headerHeight : HeaderHeights]

(***************************************************************************)
(* VolumeChartModel.                                                       *)
(***************************************************************************)
\* the options object built at the top of updateOptions
VolumeChartOptions(params) ==
  [autoSize |-> TRUE,
   locale |-> params.locale,
   priceFormatter |-> <<params.format, "formatFiatPrice", "FiatTokenChartStatsScale">>,
   borderVisible |-> FALSE,
   scaleMarginTop |-> 3, scaleMarginBottom |-> 0,   \* tenths
   axisPressedMouseMove |-> FALSE,
   vertTouchDrag |-> FALSE,
   crosshairLinesVisible |-> FALSE]

\* ChartModel.updateOptions(params, nonDefaultChartOptions): applies the options
\* to the chart and keeps the hover callback; it leaves this.data alone.
SuperUpdateOptions(m, params, options) ==
  [m EXCEPT !.chartOptions = options, !.onCrosshairMove = params.onCrosshairMove]

SeriesOptions(c) ==
  [color |-> c, priceFormat |-> "volume", priceLineVisible |-> FALSE, lastValueVisible |-> FALSE]

DataChangedByContents(m, params) == m.data.items # params.data.items

\* this.data !== data
DataChanged(m, params) == m.data.ref # params.data.ref

UpdateOptionsStale(m, params) ==
  LET m1 == SuperUpdateOptions(m, params, VolumeChartOptions(params))
      changed == DataChanged(m1, params)
      m2 == IF changed
              THEN [m1 EXCEPT !.data = params.data, !.seriesData = params.data,
                              !.fitted = params.data.ref]
              ELSE m1
      \* the overlay takes the color the series had before this call
      m3 == [m2 EXCEPT !.seriesOptions = SeriesOptions(params.color)]
      m4 == [m3 EXCEPT !.highlight = [color |-> m.seriesOptions.color,
                                      crosshairYPosition |-> params.headerHeight]]
  IN [m |-> m4,
      calls |-> <<"chart.applyOptions">>
                \o (IF changed THEN <<"series.setData", "fitContent">> ELSE <<>>)
                \o <<"series.applyOptions", "highlight.applyOptions">>]

UpdateOptionsLazy(m, params) ==
  LET m1 == SuperUpdateOptions(m, params, VolumeChartOptions(params))
      changed == DataChanged(m1, params)
      \* the series and overlay options are applied only with new data
      m2 == IF changed
              THEN [m1 EXCEPT !.data = params.data, !.seriesData = params.data,
                              !.fitted = params.data.ref,
                              !.seriesOptions = SeriesOptions(params.color),
                              !.highlight = [color |-> params.theme.surface3,
                                             crosshairYPosition |-> params.headerHeight]]
              ELSE m1
  IN [m |-> m2,
      calls |-> <<"chart.applyOptions">>
                \o (IF changed THEN <<"series.setData", "fitContent",
                                      "series.applyOptions", "highlight.applyOptions">>
                               ELSE <<>>)]

\* VolumeChartModel.updateOptions(params): the model after the call and the
\* engine calls made, in order.
UpdateOptions(m, params) ==
  LET m1 == SuperUpdateOptions(m, params, VolumeChartOptions(params))
      changed == DataChanged(m1, params)
      m2 == IF changed
              THEN [m1 EXCEPT !.data = params.data, !.seriesData = params.data,
                              !.fitted = params.data.ref]
              ELSE m1
      m3 == [m2 EXCEPT !.seriesOptions = SeriesOptions(params.color)]
      m4 == [m3 EXCEPT !.highlight = [color |-> params.theme.surface3,
                                      crosshairYPosition |-> params.headerHeight]]
  IN [m |-> m4,
      calls |-> <<"chart.applyOptions">>
                \o (IF changed THEN <<"series.setData", "fitContent">> ELSE <<>>)
                \o <<"series.applyOptions", "highlight.applyOptions">>]

\* the fields before the constructor has run
Unconstructed ==
  [data |-> NoData, seriesData |-> NoData, fitted |-> 0,
   seriesOptions |-> SeriesOptions("default"),
   highlight |-> [color |-> "none", crosshairYPosition |-> 0],
   chartOptions |-> VolumeChartOptions([locale |-> "none", format |-> "none"]),
   onCrosshairMove |-> "none"]

\* ChartModel's constructor: keeps the initial data sequence in this.data
SuperConstructor(params) == [Unconstructed EXCEPT !.data = params.data]

\* new VolumeChartModel(chartDiv, params)
Constructor(params) ==
  LET m0 == SuperConstructor(params)
      m1 == [m0 EXCEPT !.seriesData = m0.data,
                       !.highlight = [color |-> params.theme.surface3,
                                      crosshairYPosition |-> params.headerHeight]]
      u == UpdateOptions(m1, params)
  IN [m |-> [u.m EXCEPT !.fitted = u.m.seriesData.ref],
      calls |-> <<"addHistogramSeries", "series.setData", "series.attachPrimitive">>
                \o u.calls \o <<"fitContent">>]

NoParams ==
  [data |-> NoData, locale |-> "none", theme |-> [ref |-> 0, surface3 |-> "none", accent1 |-> "none"],
   color |-> "none", format |-> "none", onCrosshairMove |-> "none", headerHeight |-> 0]

(***************************************************************************)
(* The adapter on its own: constructed once, then updateOptions with any   *)
(* parameter bundle.                                                       *)
(***************************************************************************)
ChartIdle ==
  /\ volumes = Absent /\ feeTier = Absent /\ timePeriod = "DAY" /\ color = Absent
  /\ locale = "en-US" /\ theme = ThemeObj(1) /\ format = "fmtA"
  /\ crosshairData = Absent
  /\ dataMemo = [deps |-> Absent, value |-> NoData]
  /\ paramsMemo = [deps |-> <<>>, ref |-> 0, value |-> NoParams]
  /\ event = "none"

HeaderIdle ==
  /\ display = [deps |-> <<>>, value |-> <<>>]
  /\ earlier = <<>>

ModelUnconstructed ==
  /\ model = Unconstructed
  /\ engineCalls = <<>>
  /\ op = "none"
  /\ lastParams = NoParams
  /\ dataBefore = NoData
  /\ repeated = FALSE

InitModel == ModelUnconstructed /\ ChartIdle /\ HeaderIdle

\* new VolumeChartModel(chartDiv, params)
Construct(params) ==
  /\ op = "none"
  /\ model' = Constructor(params).m
  /\ engineCalls' = Constructor(params).calls
  /\ op' = "constructor"
  /\ lastParams' = params
  /\ dataBefore' = NoData
  /\ repeated' = FALSE
  /\ UNCHANGED <<chartVars, headerVars>>

\* model.updateOptions(params)
Update(params) ==
  /\ op # "none"
  /\ model' = UpdateOptions(model, params).m
  /\ engineCalls' = UpdateOptions(model, params).calls
  /\ op' = "updateOptions"
  /\ lastParams' = params
  /\ dataBefore' = model.data
  /\ repeated' = (params = lastParams)
  /\ UNCHANGED <<chartVars, headerVars>>

NextModel ==
  \/ \E params \in ParamBundles : Construct(params)
  \/ \E params \in ParamBundles : Update(params)

SpecModel == InitModel /\ [][NextModel]_vars

CalledIn(calls, c) == \E i \in DOMAIN calls : calls[i] = c
Called(c) == CalledIn(engineCalls, c)
CalledInOrder(c1, c2) ==
  \E i \in DOMAIN engineCalls :
    /\ i + 1 \in DOMAIN engineCalls
    /\ engineCalls[i] = c1
    /\ engineCalls[i + 1] = c2

(***************************************************************************)
(* C1. An updateOptions(params) call invokes series.setData and fitContent *)
(* if and only if params.data is another reference than the stored data:   *)
(* with a new reference (equal contents or not) setData(params.data) is    *)
(* followed by fitContent, with the same reference neither is invoked.     *)
(***************************************************************************)
C1_SetDataIffNewReference ==
  op = "updateOptions" =>
    IF dataBefore.ref # lastParams.data.ref
      THEN /\ CalledInOrder("series.setData", "fitContent")
           /\ model.seriesData = lastParams.data
           /\ model.fitted = lastParams.data.ref
      ELSE /\ ~Called("series.setData")
           /\ ~Called("fitContent")
           /\ model.seriesData = dataBefore

C1_Witness ==
  /\ op = "updateOptions"
  /\ dataBefore.ref # lastParams.data.ref
  /\ dataBefore.items = lastParams.data.items
  /\ CalledInOrder("series.setData", "fitContent")

(***************************************************************************)
(* C2. updateOptions is idempotent: from every reachable model state and   *)
(* for every bundle p, updateOptions(p) twice leaves the model (stored     *)
(* data, series data, series options, overlay, chart options) as           *)
(* updateOptions(p) once does.                                             *)
(***************************************************************************)
C2_UpdateOptionsIdempotent ==
  op # "none" =>
    \A p \in ParamBundles :
      UpdateOptions(UpdateOptions(model, p).m, p).m = UpdateOptions(model, p).m

C2_Witness ==
  /\ op = "updateOptions"
  /\ repeated
  /\ dataBefore = lastParams.data
  /\ model.highlight.color = lastParams.theme.surface3

(***************************************************************************)
(* C9. After the constructor and after every updateOptions call the        *)
(* adapter agrees with the most recent bundle p: stored data and series    *)
(* data are p.data, the series color is p.color, the overlay color is      *)
(* p.theme.surface3 and its vertical position p.headerHeight; the series   *)
(* and overlay options are applied by every call, new data or not.         *)
(***************************************************************************)
C9_AdapterSynchronized ==
  op # "none" =>
    /\ model.data = lastParams.data
    /\ model.seriesData = lastParams.data
    /\ model.seriesOptions.color = lastParams.color
    /\ model.highlight.color = lastParams.theme.surface3
    /\ model.highlight.crosshairYPosition = lastParams.headerHeight
    /\ Called("series.applyOptions")
    /\ Called("highlight.applyOptions")

C9_Witness ==
  /\ op = "updateOptions"
  /\ ~Called("series.setData")
  /\ model.seriesOptions.color # "default"
  /\ Called("series.applyOptions")
  /\ Called("highlight.applyOptions")
  /\ ~repeated

(***************************************************************************)
(* VolumeChart.                                                            *)
(***************************************************************************)
\* PricePoint arrays handed in by the parent: refs 1 and 3 have equal contents.
PointsA == <<[value |-> 1000, timestamp |-> 1], [value |-> 2000, timestamp |-> 2]>>
PointsB == <<[value |-> 2000, timestamp |-> 1]>>
VolumesObj(r) == [ref |-> r, items |-> IF r % 2 = 1 THEN PointsA ELSE PointsB]
VolumesProps == {Absent} \cup {Some(VolumesObj(r)) : r \in Refs}

RECURSIVE MapPoints(_)
MapPoints(points) ==
  IF points = <<>>
    THEN <<>>
    ELSE <<[value |-> Head(points).value, time |-> Head(points).timestamp]>>
         \o MapPoints(Tail(points))

DeriveDataSwapped(v) ==
  IF IsAbsent(v)
    THEN <<>>
    ELSE [i \in DOMAIN v[1].items |->
            [value |-> v[1].items[i].timestamp, time |-> v[1].items[i].value]]

\* volumes?.map((volumePoint) => ({ value, time: timestamp })) ?? []
DeriveData(v) == IF IsAbsent(v) THEN <<>> ELSE MapPoints(v[1].items)

\* an identity no live object of the kind has
FreshRef(live) == CHOOSE r \in Refs : r \notin live /\ \A q \in Refs \ live : r <= q

\* how a dependency list sees an optional array: by identity
Identity(o) == IF IsAbsent(o) THEN Absent ELSE Some(o[1].ref)

\* const data = useMemo(() => ..., [volumes])
UseDataMemo(memo, v) ==
  IF memo.deps = Identity(v)
    THEN memo
    ELSE [deps |-> Identity(v),
          value |-> [ref |-> FreshRef({memo.value.ref}), items |-> DeriveData(v)]]

NoFeesDataFalsy(f) == IsAbsent(f) \/ f[1] = 0

\* feeTier === undefined
NoFeesData(f) == IsAbsent(f)

HeaderHeight(noFeesData) == IF noFeesData THEN 75 ELSE 90

ParamsDepsWithHover(data, loc, th, c, fmt, noFeesData, cross) ==
  <<data.ref, loc, th.ref, c, fmt, noFeesData, cross>>

ParamsDepsNoTheme(data, loc, th, c, fmt, noFeesData, cross) ==
  <<data.ref, loc, 0, c, fmt, noFeesData>>

\* [data, locale, theme, color, format, noFeesData]
ParamsDeps(data, loc, th, c, fmt, noFeesData, cross) ==
  <<data.ref, loc, th.ref, c, fmt, noFeesData>>

\* const params = useMemo(() => ({ data, locale, theme, color: color ?? theme.accent1, ... }), [...])
UseParamsMemo(memo, data, loc, th, c, fmt, noFeesData, cross) ==
  IF memo.deps = ParamsDeps(data, loc, th, c, fmt, noFeesData, cross)
    THEN memo
    ELSE [deps |-> ParamsDeps(data, loc, th, c, fmt, noFeesData, cross),
          ref |-> FreshRef({memo.ref}),
          value |-> [data |-> data, locale |-> loc, theme |-> th,
                     color |-> OrElse(c, th.accent1), format |-> fmt,
                     onCrosshairMove |-> "setCrosshairData",
                     headerHeight |-> HeaderHeight(noFeesData)]]

\* <Chart Model={VolumeChartModel} params={params} />: updateOptions runs when
\* the params object is another one than at the previous render.
ChartEffect(old, new) ==
  IF new.ref # old.ref
    THEN /\ model' = UpdateOptions(model, new.value).m
         /\ engineCalls' = UpdateOptions(model, new.value).calls
         /\ op' = "updateOptions"
         /\ lastParams' = new.value
    ELSE /\ engineCalls' = <<>>
         /\ op' = "idle"
         /\ UNCHANGED <<model, lastParams>>

\* one render of VolumeChart and the effects it triggers
Render(ev, v, f, t, c, loc, th, fmt, cross) ==
  LET data == UseDataMemo(dataMemo, v)
      params == UseParamsMemo(paramsMemo, data.value, loc, th, c, fmt, NoFeesData(f), cross)
  IN /\ volumes' = v /\ feeTier' = f /\ timePeriod' = t /\ color' = c
     /\ locale' = loc /\ theme' = th /\ format' = fmt
     /\ crosshairData' = cross
     /\ dataMemo' = data
     /\ paramsMemo' = params
     /\ event' = ev
     /\ ChartEffect(paramsMemo, params)
     /\ UNCHANGED <<dataBefore, repeated, headerVars>>

\* the first render and the construction of the adapter
Init ==
  \E v \in VolumesProps, f \in FeeTiers, t \in TimePeriods, c \in ColorProps,
     loc \in Locales, th \in Themes, fmt \in Formats :
    LET data == UseDataMemo([deps |-> Some(0), value |-> NoData], v)
        params == UseParamsMemo([deps |-> <<>>, ref |-> 0, value |-> NoParams],
                                data.value, loc, th, c, fmt, NoFeesData(f), Absent)
    IN /\ volumes = v /\ feeTier = f /\ timePeriod = t /\ color = c
       /\ locale = loc /\ theme = th /\ format = fmt
       /\ crosshairData = Absent
       /\ dataMemo = data
       /\ paramsMemo = params
       /\ event = "mount"
       /\ model = Constructor(params.value).m
       /\ engineCalls = Constructor(params.value).calls
       /\ op = "constructor"
       /\ lastParams = params.value
       /\ dataBefore = NoData
       /\ repeated = FALSE
       /\ HeaderIdle

ParentRenderResetsHover(v, f, t, c) ==
  Render("props", v, f, t, c, locale, theme, format,
         IF Identity(v) = Identity(volumes) THEN crosshairData ELSE Absent)

\* the parent renders VolumeChart with props, changed or not
ParentRender(v, f, t, c) ==
  Render("props", v, f, t, c, locale, theme, format, crosshairData)

\* useActiveLocale() returns another locale
LocaleChange(loc) ==
  /\ loc # locale
  /\ Render("context", volumes, feeTier, timePeriod, color, loc, theme, format, crosshairData)

\* useTheme() returns another theme object
ThemeChange(th) ==
  /\ th.ref # theme.ref
  /\ Render("theme", volumes, feeTier, timePeriod, color, locale, th, format, crosshairData)

\* useFormatter() returns another formatter object
FormatChange(fmt) ==
  /\ fmt # format
  /\ Render("context", volumes, feeTier, timePeriod, color, locale, theme, fmt, crosshairData)

\* what the engine can report under the pointer: a bar of the series, or nothing
HoverData == {Absent} \cup {Some(model.seriesData.items[i]) : i \in DOMAIN model.seriesData.items}

\* onCrosshairMove: setCrosshairData(d), and the render that follows
CrosshairMove(d) ==
  /\ d \in HoverData
  /\ Render("crosshair", volumes, feeTier, timePeriod, color, locale, theme, format, d)

Next ==
  \/ \E v \in VolumesProps, f \in FeeTiers, t \in TimePeriods, c \in ColorProps :
       ParentRender(v, f, t, c)
  \/ \E loc \in Locales : LocaleChange(loc)
  \/ \E th \in Themes : ThemeChange(th)
  \/ \E fmt \in Formats : FormatChange(fmt)
  \/ \E d \in {Absent} \cup {Some(x) : x \in ChartData} : CrosshairMove(d)

Spec == Init /\ [][Next]_vars

(***************************************************************************)
(* The data derivation on its own: every volumes sequence up to MaxLen.    *)
(***************************************************************************)
RECURSIVE SeqsUpTo(_, _)
SeqsUpTo(S, n) ==
  IF n = 0
    THEN {<<>>}
    ELSE SeqsUpTo(S, n - 1)
         \cup {Append(q, x) : q \in {r \in SeqsUpTo(S, n - 1) : Len(r) = n - 1}, x \in S}

AllVolumes ==
  {Absent} \cup {Some([ref |-> r, items |-> q]) : r \in Refs, q \in SeqsUpTo(PricePoints, MaxLen)}

InitData ==
  /\ ModelUnconstructed /\ HeaderIdle
  /\ feeTier = Absent /\ timePeriod = "DAY" /\ color = Absent
  /\ locale = "en-US" /\ theme = ThemeObj(1) /\ format = "fmtA"
  /\ crosshairData = Absent
  /\ paramsMemo = [deps |-> <<>>, ref |-> 0, value |-> NoParams]
  /\ event = "mount"
  /\ volumes \in AllVolumes
  /\ dataMemo = UseDataMemo([deps |-> Some(0), value |-> NoData], volumes)

\* a render with another volumes array: the useMemo of data
DataRender(v) ==
  /\ Identity(v) # Identity(volumes)
  /\ volumes' = v
  /\ dataMemo' = UseDataMemo(dataMemo, v)
  /\ event' = "props"
  /\ UNCHANGED <<modelVars, headerVars, feeTier, timePeriod, color, locale, theme,
                 format, crosshairData, paramsMemo>>

NextData == \E v \in AllVolumes : DataRender(v)

SpecData == InitData /\ [][NextData]_vars

(***************************************************************************)
(* C4. The derived chart data has the length and order of volumes, its     *)
(* i-th element has value volumes[i].value and time volumes[i].timestamp;  *)
(* without volumes it is the empty sequence.                               *)
(***************************************************************************)
C4_DerivedDataMapsPoints ==
  LET d == dataMemo.value.items
  IN IF IsAbsent(volumes)
       THEN d = <<>>
       ELSE /\ Len(d) = Len(volumes[1].items)
            /\ \A i \in 1..Len(d) :
                 /\ d[i].value = volumes[1].items[i].value
                 /\ d[i].time = volumes[1].items[i].timestamp

C4_Witness ==
  /\ event = "props"
  /\ ~IsAbsent(volumes)
  /\ Len(volumes[1].items) >= 2
  /\ volumes[1].items[1] # volumes[1].items[2]
  /\ Len(dataMemo.value.items) = Len(volumes[1].items)

(***************************************************************************)
(* JavaScript numbers: IEEE-754 binary64, round to nearest, ties to even.  *)
(* A positive number is its 53 significand bits, most significant first    *)
(* (the first is 1), and the exponent of the first bit; the operands of    *)
(* the header's arithmetic are never negative, infinite or subnormal.      *)
(***************************************************************************)
Precision == 53

Zero == [bits |-> <<>>, exp |-> 0]

RECURSIVE NatBits(_)
NatBits(n) == IF n = 0 THEN <<>> ELSE NatBits(n \div 2) \o <<n % 2>>

RECURSIVE Zeros(_)
Zeros(k) == IF k <= 0 THEN <<>> ELSE <<0>> \o Zeros(k - 1)

RECURSIVE IncrementFrom(_, _)
\* bits + 1, adding at place i and carrying towards the first bit
IncrementFrom(bits, i) ==
  IF i = 0
    THEN [bits |-> bits, carry |-> 1]
    ELSE IF bits[i] = 0
      THEN [bits |-> [bits EXCEPT ![i] = 1], carry |-> 0]
      ELSE IncrementFrom([bits EXCEPT ![i] = 0], i - 1)

Increment(bits) == IncrementFrom(bits, Len(bits))

\* the next larger number
NextUp(x) ==
  LET inc == Increment(x.bits)
  IN IF inc.carry = 1
       THEN [bits |-> <<1>> \o SubSeq(inc.bits, 1, Precision - 1), exp |-> x.exp + 1]
       ELSE [bits |-> inc.bits, exp |-> x.exp]

RECURSIVE RoundBits(_, _, _)
\* the number nearest to the exact value with binary digits `digits` (the first
\* of weight 2^e) plus, when `sticky`, something smaller than the last digit
RoundBits(digits, e, sticky) ==
  IF digits = <<>>
    THEN Zero
    ELSE IF Head(digits) = 0
      THEN RoundBits(Tail(digits), e - 1, sticky)
      ELSE IF Len(digits) <= Precision
        THEN [bits |-> digits \o Zeros(Precision - Len(digits)), exp |-> e]
        ELSE LET kept == SubSeq(digits, 1, Precision)
                 guard == digits[Precision + 1]
                 rest == sticky \/ \E i \in (Precision + 2)..Len(digits) : digits[i] = 1
                 up == guard = 1 /\ (rest \/ kept[Precision] = 1)
             IN IF up THEN NextUp([bits |-> kept, exp |-> e])
                      ELSE [bits |-> kept, exp |-> e]

FromNat(n) == RoundBits(NatBits(n), Len(NatBits(n)) - 1, FALSE)

RECURSIVE LongDivision(_, _, _, _)
\* binary long division of `digits` by d, entered with remainder r and the
\* quotient digits q found so far
LongDivision(digits, d, r, q) ==
  IF digits = <<>>
    THEN [q |-> q, r |-> r]
    ELSE LongDivision(Tail(digits), d, (2 * r + Head(digits)) % d,
                      Append(q, (2 * r + Head(digits)) \div d))

\* x / d for a number x and a positive integer d
DivideByNat(x, d) ==
  IF x = Zero
    THEN Zero
    ELSE LET res == LongDivision(x.bits \o Zeros(Len(NatBits(d)) + 3), d, 0, <<>>)
         IN RoundBits(res.q, x.exp, res.r # 0)

RECURSIVE TimesNatDigits(_, _, _, _)
\* n * digits from the last place to the first: the digits of the same places
\* and the carry out of the first, entered at place i with carry c
TimesNatDigits(digits, n, i, c) ==
  IF i = 0
    THEN [d |-> digits, c |-> c]
    ELSE TimesNatDigits([digits EXCEPT ![i] = (n * digits[i] + c) % 2], n, i - 1,
                        (n * digits[i] + c) \div 2)

\* n * y for a non-negative integer n and a number y
TimesNat(n, y) ==
  IF n = 0 \/ y = Zero
    THEN Zero
    ELSE LET p == TimesNatDigits(y.bits, n, Len(y.bits), 0)
             top == NatBits(p.c)
         IN RoundBits(top \o p.d, y.exp + Len(top), FALSE)

(***************************************************************************)
(* VolumeChartHeader.  Its display memo is specified on its own            *)
(* (SpecHeader), with the props VolumeChart can hand it.                   *)
(***************************************************************************)
BIPS_BASE == 10000

\* Math.random() * 1e10: some outcomes
MockVolumes == {1000, 750000000}

\* the bars the pointer can be over
HoverSamples == {[value |-> 1000, time |-> 1], [value |-> 2000, time |-> 2]}
HoverProps == {Absent} \cup {Some(d) : d \in HoverSamples}

\* leading binary digits a formatted amount keeps (about three decimal digits)
ShownBits == 10

\* formatFiatPrice({ price, type }): a text of the amount to a few leading digits
FormatFiatPrice(fmt, price, type) ==
  [formatter |-> fmt, type |-> type, exp |-> price.exp,
   digits |-> IF price = Zero THEN <<>> ELSE SubSeq(price.bits, 1, ShownBits)]

\* t`Past ${toHistoryDuration(timePeriod).toLowerCase()}`
PastLabel(t) == <<"Past", IF t = "DAY" THEN "day" ELSE "week">>

\* headerDateFormatter(time)
HeaderDate(loc, time) == <<"date", loc, time>>

FeeAmountNoPercent(base, f) ==
  TimesNat(base, DivideByNat(FromNat(OrElse(f, 0)), BIPS_BASE))

\* base * ((feeTier ?? 0) / BIPS_BASE / 100)
FeeAmount(base, f) ==
  TimesNat(base, DivideByNat(DivideByNat(FromNat(OrElse(f, 0)), BIPS_BASE), 100))

\* the body of useMemo in VolumeChartHeader; rnd is what Math.random() * 1e10 gives
ComputeDisplay(cross, f, t, fmt, loc, rnd) ==
  LET base == IF IsAbsent(cross) THEN rnd ELSE cross[1].value
      fees == FeeAmount(base, f)
  IN [volume |-> FormatFiatPrice(fmt, FromNat(base), "FiatTokenStatChartHeader"),
      fees |-> FormatFiatPrice(fmt, fees, "FiatTokenStatChartHeader"),
      time |-> IF IsAbsent(cross) THEN PastLabel(t) ELSE HeaderDate(loc, cross[1].time),
      base |-> base,
      feeAmount |-> fees]

\* ComputeDisplay over the inputs that occur, evaluated once
DisplayTable ==
  [cross \in HoverProps, f \in FeeTiers, t \in TimePeriods, fmt \in Formats,
   loc \in Locales, rnd \in MockVolumes |-> ComputeDisplay(cross, f, t, fmt, loc, rnd)]

\* [crosshairData, feeTier, formatFiatPrice, headerDateFormatter, timePeriod]
DisplayDeps(cross, f, fmt, loc, t) == <<cross, f, fmt, loc, t>>

UseDisplayMemo(memo, cross, f, t, fmt, loc, rnd) ==
  IF memo.deps = DisplayDeps(cross, f, fmt, loc, t)
    THEN memo
    ELSE [deps |-> DisplayDeps(cross, f, fmt, loc, t),
          value |-> DisplayTable[cross, f, t, fmt, loc, rnd]]

Strings(d) == [volume |-> d.volume, fees |-> d.fees, time |-> d.time]

InitHeader ==
  /\ ModelUnconstructed
  /\ volumes = Absent /\ color = Absent /\ theme = ThemeObj(1)
  /\ dataMemo = [deps |-> Absent, value |-> NoData]
  /\ paramsMemo = [deps |-> <<>>, ref |-> 0, value |-> NoParams]
  /\ event = "mount"
  /\ format \in Formats
  /\ crosshairData = Absent
  /\ feeTier \in FeeTiers
  /\ timePeriod \in TimePeriods
  /\ locale \in Locales
  /\ \E rnd \in MockVolumes :
       display = UseDisplayMemo([deps |-> <<>>, value |-> <<>>],
                                crosshairData, feeTier, timePeriod, format, locale, rnd)
  /\ earlier = Absent

\* VolumeChartHeader renders with props and context, changed or not; `keep`
\* decides whether the display shown until now is the one remembered
HeaderRender(cross, f, t, fmt, loc, rnd, keep) ==
  /\ crosshairData' = cross
  /\ feeTier' = f
  /\ timePeriod' = t
  /\ format' = fmt
  /\ locale' = loc
  /\ display' = UseDisplayMemo(display, cross, f, t, fmt, loc, rnd)
  /\ earlier' = IF keep THEN Some([inputs |-> display.deps, strings |-> Strings(display.value)])
                        ELSE earlier
  /\ event' = "props"
  /\ UNCHANGED <<modelVars, volumes, color, theme, dataMemo, paramsMemo>>

NextHeader ==
  \E cross \in HoverProps, f \in FeeTiers, t \in TimePeriods, fmt \in Formats,
     loc \in Locales, rnd \in MockVolumes, keep \in BOOLEAN :
    HeaderRender(cross, f, t, fmt, loc, rnd, keep)

SpecHeader == InitHeader /\ [][NextHeader]_vars

\* the number 0.03 (the one nearest to 3/100)
ThreeHundredths == DivideByNat(FromNat(3), 100)

FeeBase == IF IsAbsent(crosshairData) THEN display.value.base ELSE crosshairData[1].value

(***************************************************************************)
(* C6 as stated. The fee amount is base x (feeTier / BIPS_BASE / 100) with *)
(* base the hovered value, or the mocked volume without a hover; without a *)
(* feeTier it is 0; a hovered value of 1000 and a feeTier of 30 give 0.03. *)
(***************************************************************************)
C6_FeeAmountAsStated ==
  /\ display.value.feeAmount =
       TimesNat(FeeBase, DivideByNat(DivideByNat(FromNat(OrElse(feeTier, 0)), BIPS_BASE), 100))
  /\ IsAbsent(feeTier) => display.value.feeAmount = Zero
  /\ (crosshairData = Some([value |-> 1000, time |-> 1]) /\ feeTier = Some(30))
       => display.value.feeAmount = ThreeHundredths

(***************************************************************************)
(* C6 as amended. The fee amount is base x (feeTier / BIPS_BASE / 100) in  *)
(* double precision, with base the hovered value, or the mocked volume     *)
(* without a hover; without a feeTier it is 0; a hovered value of 1000 and *)
(* a feeTier of 30 give 0.030000000000000002, the number next above 0.03   *)
(* (30 / 10000 / 100 is rounded twice before the product is).              *)
(***************************************************************************)
C6_FeeAmount ==
  /\ display.value.feeAmount =
       TimesNat(FeeBase, DivideByNat(DivideByNat(FromNat(OrElse(feeTier, 0)), BIPS_BASE), 100))
  /\ IsAbsent(feeTier) => display.value.feeAmount = Zero
  /\ (crosshairData = Some([value |-> 1000, time |-> 1]) /\ feeTier = Some(30))
       => display.value.feeAmount = NextUp(ThreeHundredths)

C6_Witness ==
  /\ event = "props"
  /\ crosshairData = Some([value |-> 1000, time |-> 1])
  /\ feeTier = Some(30)
  /\ display.value.feeAmount # Zero

(***************************************************************************)
(* C8. The display strings {volume, fees, time} are a function of the      *)
(* crosshair datum (or its absence), feeTier, timePeriod and the           *)
(* formatting context: two computations with the same inputs give the      *)
(* same strings, hovering or not.                                          *)
(***************************************************************************)
C8_DisplayIsFunctionOfInputs ==
  \A i \in DOMAIN earlier :
    earlier[i].inputs = display.deps => earlier[i].strings = Strings(display.value)

(***************************************************************************)
(* Claims about the component (specification Spec).                        *)
(***************************************************************************)
SameVolumes == Identity(volumes') = Identity(volumes)
NewTheme == theme'.ref # theme.ref
DataUntouched ==
  /\ ~CalledIn(engineCalls', "series.setData")
  /\ ~CalledIn(engineCalls', "fitContent")
  /\ model'.data = model.data
  /\ model'.seriesData = model.seriesData

(***************************************************************************)
(* C3 as stated. A render with a new theme object and the same volumes     *)
(* reference sets the overlay color and the series color to the new        *)
(* theme's values (surface3, accent1) and leaves the series data alone:    *)
(* no setData, no fitContent, the stored data reference unchanged.         *)
(***************************************************************************)
C3_RethemeAsStated ==
  [][(NewTheme /\ SameVolumes) =>
       /\ model'.highlight.color = theme'.surface3
       /\ model'.seriesOptions.color = theme'.accent1
       /\ DataUntouched]_vars

(***************************************************************************)
(* C3 as amended. A render with a new theme object and the same volumes    *)
(* reference sets the overlay color to the new theme's surface3 and the    *)
(* series color to the color prop when one is given, else to the new       *)
(* theme's accent1, and leaves the series data alone: no setData, no       *)
(* fitContent, the stored data reference unchanged.                        *)
(***************************************************************************)
C3_Retheme ==
  [][(NewTheme /\ SameVolumes) =>
       /\ model'.highlight.color = theme'.surface3
       /\ model'.seriesOptions.color = OrElse(color', theme'.accent1)
       /\ DataUntouched]_vars

C3_Witness ==
  /\ event = "theme"
  /\ op = "updateOptions"
  /\ ~Called("series.setData")
  /\ ~Called("fitContent")
  /\ IsAbsent(color)
  /\ model.seriesOptions.color = theme.accent1
  /\ model.highlight.color = theme.surface3
  /\ theme.ref = 2

(***************************************************************************)
(* C5. In every render noFeesData is true exactly when feeTier is absent   *)
(* (a feeTier of 0 is present), and the headerHeight of the bundle handed  *)
(* to the adapter is 75 when it is true and 90 when it is false.           *)
(***************************************************************************)
C5_HeaderHeight ==
  LET noFeesData == paramsMemo.deps[6]
  IN /\ noFeesData <=> IsAbsent(feeTier)
     /\ noFeesData => paramsMemo.value.headerHeight = 75 /\ lastParams.headerHeight = 75
     /\ ~noFeesData => paramsMemo.value.headerHeight = 90 /\ lastParams.headerHeight = 90

C5_Witness ==
  /\ event = "props"
  /\ op = "updateOptions"
  /\ feeTier = Some(0)
  /\ lastParams.headerHeight = 90
  /\ model.highlight.crosshairYPosition = 90

(***************************************************************************)
(* C7. The crosshair state is no-hover or hovering(datum); it starts as    *)
(* no-hover and changes only in a step of the hover callback: renders for  *)
(* new volumes, feeTier, timePeriod, color, theme or locale leave it.      *)
(***************************************************************************)
C7_CrosshairOnlyByHover ==
  /\ crosshairData = Absent
  /\ [](crosshairData \in {Absent} \cup {Some(d) : d \in ChartData})
  /\ [][crosshairData' # crosshairData =>
          /\ event' = "crosshair"
          /\ \E d \in HoverData : CrosshairMove(d)]_vars

C7_Witness ==
  /\ ~IsAbsent(crosshairData)
  /\ event = "props"
  /\ op = "updateOptions"
  /\ Called("series.setData")

(***************************************************************************)
(* C10. A render caused only by a change of the crosshair state (volumes,  *)
(* locale, theme, color, format and the presence of feeTier as before)     *)
(* returns the data and the parameter bundle of the render before, so the  *)
(* adapter gets no updateOptions call, and the series no setData or        *)
(* fitContent.                                                             *)
(***************************************************************************)
C10_HoverDoesNotReconfigure ==
  [][(/\ crosshairData' # crosshairData
      /\ SameVolumes
      /\ UNCHANGED <<locale, theme, color, format>>
      /\ NoFeesData(feeTier') = NoFeesData(feeTier))
     => /\ dataMemo'.value.ref = dataMemo.value.ref
        /\ paramsMemo'.ref = paramsMemo.ref
        /\ op' = "idle"
        /\ engineCalls' = <<>>
        /\ model' = model]_vars

C10_Witness ==
  /\ event = "crosshair"
  /\ ~IsAbsent(crosshairData)
  /\ op = "idle"
  /\ engineCalls = <<>>
  /\ lastParams = paramsMemo.value
====
